---- MODULE Spec2Model ----
(***************************************************************************)
(* A model of skiplist.c: a skiplist with per-node towers of forward       *)
(* pointers, a replaceable head node and one shared sentinel.              *)
(*                                                                         *)
(* The heap is a finite pool of addresses.  Each cell is either free or    *)
(* holds a node record [h, k, v, next], where next is the tower: next[i+1] *)
(* is the C field next[i].  The head is a node of the pool like any other. *)
(*                                                                         *)
(* Every function of skiplist.c is an operator that maps the heap, head    *)
(* and count it is given to the ones it leaves behind, together with what  *)
(* it returns.  The mutating functions are the actions of Spec; the        *)
(* read-only ones are evaluated by the properties in every reachable       *)
(* state.  Properties that relate a call's result to the state before it   *)
(* apply the operator to the current state for every input.                *)
(***************************************************************************)
EXTENDS Integers, Sequences, FiniteSets, TLC

\* ------------------------------------------------------------------ bounds
MaxKey == 3                 \* keys are 1..MaxKey
MaxVal == 1                 \* non-NULL values are 1..MaxVal
MaxAddr == 4                \* heap cells; malloc fails when none is free
SKIPLIST_MAX_HEIGHT == 2    \* skiplist_config.h (not part of src/)
MaxSeed == 7                \* seeds are 0..MaxSeed

\* --------------------------------------------------------------- constants
NULL == 0                   \* the null pointer, also a storable value
SENTINEL == -1              \* &SENTINEL, compared by identity only
OK == 0                     \* "R 0"
ERR == -1                   \* "R -1"
UNSET == -2                 \* an out-parameter the callee did not write

Keys == 1..MaxKey
Values == 0..MaxVal
Addrs == 1..MaxAddr
\* random() results: for each height the least r that produces it, and one
\* r with more set bits than SKIPLIST_MAX_HEIGHT, which the cap cuts down.
Randoms == {2 ^ h - 2 : h \in 1..SKIPLIST_MAX_HEIGHT + 1}

VARIABLES
    heap,       \* Addrs -> node record or FreeCell
    head,       \* sl->head
    count,      \* sl->count
    call,       \* the last public call: its name, arguments and results
    aborted,    \* the process died in an assertion / invalid memory access
    seed,       \* the argument of the last skiplist_set_seed
    rng,        \* the state of the random() generator
    heights,    \* heights of the nodes inserted since the last seeding
    threads     \* per thread: the call it is inside and that call's locals

vars == <<heap, head, count, call, aborted, seed, rng, heights, threads>>

\* What the single-threaded operations of Spec leave alone.  Spec draws
\* the result of random() from all of Randoms, which covers every state the
\* generator can be in; SpecSeed follows the one generator instead.
generator == <<seed, rng, heights>>

FreeCell == [h |-> 0, k |-> 0, v |-> 0, next |-> <<>>]

IS_SENTINEL(n) == n = SENTINEL

\* The comparator: a three-way total order on keys.
SKIPLIST_CMP(a, b) == IF a < b THEN -1 ELSE IF a = b THEN 0 ELSE 1

Min(a, b) == IF a < b THEN a ELSE b
Max(a, b) == IF a > b THEN a ELSE b

\* F applied to the value of e, which is computed once.
With(e, F(_)) == CHOOSE r \in {F(x) : x \in {e}} : TRUE

\* n->next[i]
Nxt(mem, n, i) == mem[n].next[i + 1]

\* The cells malloc can hand out.
FreeAddrs(mem) == {a \in Addrs : mem[a] = FreeCell}

\* SKIPLIST_MALLOC: fails when told to, or when the pool is exhausted.
\* Which free block is returned is not observable (nodes are only compared
\* by identity), so the lowest free address is taken.
SKIPLIST_MALLOC(mem, ok) ==
    IF ok /\ FreeAddrs(mem) # {}
    THEN CHOOSE a \in FreeAddrs(mem) : \A b \in FreeAddrs(mem) : a <= b
    ELSE NULL

\* N_alloc: a node of the given height, every forward pointer the sentinel.
N_alloc(mem, height, key, value, ok) ==
    LET n == SKIPLIST_MALLOC(mem, ok) IN
    IF n = NULL THEN [mem |-> mem, n |-> NULL]
    ELSE [mem |-> [mem EXCEPT ![n] = [h |-> height, k |-> key, v |-> value,
                                      next |-> [i \in 1..height |-> SENTINEL]]],
          n |-> n]

\* N_free
N_free(mem, n) == [mem EXCEPT ![n] = FreeCell]

\* SKIPLIST_GEN_HEIGHT: one plus the number of consecutive set bits of r
\* starting at bit 1 (the mask is 2 << bit), capped at SKIPLIST_MAX_HEIGHT.
RECURSIVE GenBits(_, _)
GenBits(r, bit) ==
    IF bit < SKIPLIST_MAX_HEIGHT /\ (r \div (2 ^ (bit + 1))) % 2 = 1
    THEN 1 + GenBits(r, bit + 1)
    ELSE 0

\* SKIPLIST_GEN_HEIGHT without the cap of its return statement.
SKIPLIST_GEN_HEIGHT_no_cap(r) == 1 + GenBits(r, 0)

SKIPLIST_GEN_HEIGHT(r) ==
    LET h == 1 + GenBits(r, 0) IN
    IF h > SKIPLIST_MAX_HEIGHT THEN SKIPLIST_MAX_HEIGHT ELSE h

\* srandom(3) and random(3): a deterministic generator.  srandom sets its
\* state from the seed; random() advances the state and returns a value
\* that depends on the state alone.  The generator here is a full-period
\* linear congruential one over the low SKIPLIST_MAX_HEIGHT + 1 bits, the
\* only bits SKIPLIST_GEN_HEIGHT can look at before the cap applies.
RngStates == 2 ^ (SKIPLIST_MAX_HEIGHT + 1)
Seeds == 0..MaxSeed
srandom(s) == s % RngStates
random(g) ==
    LET n == (5 * g + 3) % RngStates IN [r |-> n, rng |-> n]

\* skiplist_set_seed
skiplist_set_seed(s) == srandom(s)

\* ------------------------------------------------------------- traversal

\* init_prevs with "<=" for "<": it also walks past the nodes of equal key.
RECURSIVE init_prevs_loop_past_equal(_, _, _, _, _)
init_prevs_loop_past_equal(mem, key, cur, lvl, prevs) ==
    LET next == Nxt(mem, cur, lvl)
        res == IF IS_SENTINEL(next) THEN 1 ELSE SKIPLIST_CMP(mem[next].k, key)
    IN  IF res <= 0
        THEN init_prevs_loop_past_equal(mem, key, next, lvl, prevs)
        ELSE LET p == [prevs EXCEPT ![lvl] = cur] IN
             IF lvl - 1 >= 0
             THEN init_prevs_loop_past_equal(mem, key, cur, lvl - 1, p)
             ELSE p

\* init_prevs that never advances: every predecessor is the start node.
RECURSIVE init_prevs_loop_no_advance(_, _, _, _, _)
init_prevs_loop_no_advance(mem, key, cur, lvl, prevs) ==
    LET p == [prevs EXCEPT ![lvl] = cur] IN
    IF lvl - 1 >= 0 THEN init_prevs_loop_no_advance(mem, key, cur, lvl - 1, p)
                    ELSE p

\* init_prevs: per level, the last node whose key is < key.
RECURSIVE init_prevs_loop(_, _, _, _, _)
init_prevs_loop(mem, key, cur, lvl, prevs) ==
    LET next == Nxt(mem, cur, lvl)
        res == IF IS_SENTINEL(next) THEN 1 ELSE SKIPLIST_CMP(mem[next].k, key)
    IN  IF res < 0
        THEN init_prevs_loop(mem, key, next, lvl, prevs)
        ELSE LET p == [prevs EXCEPT ![lvl] = cur] IN
             IF lvl - 1 >= 0 THEN init_prevs_loop(mem, key, cur, lvl - 1, p)
                             ELSE p

init_prevs(mem, key, hd, height) ==
    init_prevs_loop(mem, key, hd, height - 1, [i \in 0..height - 1 |-> NULL])

\* get_first_eq_node: the first level-0 node whose key equals key, or NULL.
RECURSIVE get_first_eq_loop(_, _, _, _)
get_first_eq_loop(mem, key, cur, lvl) ==
    LET next == Nxt(mem, cur, lvl)
        res == IF IS_SENTINEL(next) THEN 1 ELSE SKIPLIST_CMP(mem[next].k, key)
    IN  IF res < 0
        THEN get_first_eq_loop(mem, key, next, lvl)
        ELSE IF lvl = 0
             THEN (IF res = 0 THEN next ELSE NULL)
             ELSE get_first_eq_loop(mem, key, cur, lvl - 1)

get_first_eq_node(mem, hd, key) ==
    get_first_eq_loop(mem, key, hd, mem[hd].h - 1)

\* skiplist_get
skiplist_get(mem, hd, key) ==
    LET n == get_first_eq_node(mem, hd, key) IN
    IF n # NULL THEN mem[n].v ELSE NULL

\* skiplist_member
skiplist_member(mem, hd, key) == skiplist_get(mem, hd, key) # NULL

\* ------------------------------------------------------------- insertion

\* grow_head that releases the old head before it has the new one.
grow_head_free_first(mem, hd, nn, ok) ==
    LET old_head == hd
        a == N_alloc(N_free(mem, old_head), mem[nn].h, SENTINEL, SENTINEL, ok)
        new_head == a.n
    IN  IF new_head = NULL
        THEN [mem |-> a.mem, head |-> hd, ret |-> ERR]
        ELSE LET m1 == [a.mem EXCEPT ![new_head].next =
                          [i \in 1..mem[nn].h |->
                             IF i - 1 < mem[old_head].h
                             THEN Nxt(mem, old_head, i - 1)
                             ELSE nn]]
             IN [mem |-> m1, head |-> new_head, ret |-> OK]

\* grow_head that leaves the new levels of the new head at the sentinel.
grow_head_new_levels_empty(mem, hd, nn, ok) ==
    LET old_head == hd
        a == N_alloc(mem, mem[nn].h, SENTINEL, SENTINEL, ok)
        new_head == a.n
    IN  IF new_head = NULL
        THEN [mem |-> mem, head |-> hd, ret |-> ERR]
        ELSE LET m1 == [a.mem EXCEPT ![new_head].next =
                          [i \in 1..mem[nn].h |->
                             IF i - 1 < mem[old_head].h
                             THEN Nxt(mem, old_head, i - 1)
                             ELSE SENTINEL]]
             IN [mem |-> N_free(m1, old_head), head |-> new_head, ret |-> OK]

\* grow_head: replace the head by one as tall as nn.
grow_head(mem, hd, nn, ok) ==
    LET old_head == hd
        a == N_alloc(mem, mem[nn].h, SENTINEL, SENTINEL, ok)
        new_head == a.n
    IN  IF new_head = NULL
        THEN [mem |-> mem, head |-> hd, ret |-> ERR]
        ELSE LET m1 == [a.mem EXCEPT ![new_head].next =
                          [i \in 1..mem[nn].h |->
                             IF i - 1 < mem[old_head].h
                             THEN Nxt(mem, old_head, i - 1)
                             ELSE nn]]
             IN [mem |-> N_free(m1, old_head), head |-> new_head, ret |-> OK]

\* The splice loop of add_or_set linking the node in at level 0 only.
splice_level0(mem, prevs, nn, i, minH) ==
    LET m1 == [mem EXCEPT ![nn].next[1] = Nxt(mem, prevs[0], 0)]
    IN  [m1 EXCEPT ![prevs[0]].next[1] = nn]

\* The splice loop of add_or_set, levels i..minH-1.
RECURSIVE splice(_, _, _, _, _)
splice(mem, prevs, nn, i, minH) ==
    IF i >= minH THEN mem
    ELSE LET m1 == [mem EXCEPT ![nn].next[i + 1] = Nxt(mem, prevs[i], i)]
             m2 == [m1 EXCEPT ![prevs[i]].next[i + 1] = nn]
         IN splice(m2, prevs, nn, i + 1, minH)

\* add_or_set.  has_old says whether the caller passed a non-NULL `old`;
\* the result's old is what the call wrote through it, UNSET if it wrote
\* nothing (the caller's variable then keeps its earlier, indeterminate
\* contents).  r is the value random() returns, ok1 / ok2 whether the
\* allocation of the node / of the new head may succeed.  drew says
\* whether the call reached SKIPLIST_GEN_HEIGHT, that is, called random().
add_or_set(mem, hd, cnt, try_replace, key, value, has_old, r, ok1, ok2) ==
    LET cur_height == mem[hd].h
        prevs == init_prevs(mem, key, hd, cur_height)
        next == Nxt(mem, prevs[0], 0)
        found == try_replace /\ ~IS_SENTINEL(next)
                 /\ SKIPLIST_CMP(mem[next].k, key) = 0
        old1 == IF try_replace /\ ~IS_SENTINEL(next) /\ has_old
                THEN (IF found THEN mem[next].v ELSE NULL)
                ELSE UNSET
    IN  IF found
        THEN [mem |-> [mem EXCEPT ![next].v = value], head |-> hd,
              count |-> cnt, ret |-> OK, old |-> old1, drew |-> FALSE]
        ELSE
        LET new_height == SKIPLIST_GEN_HEIGHT(r)
            a == N_alloc(mem, new_height, key, value, ok1)
            nn == a.n
        IN  IF nn = NULL
            THEN [mem |-> mem, head |-> hd, count |-> cnt, ret |-> ERR,
                  old |-> old1, drew |-> TRUE]
            ELSE
            LET g == IF new_height > cur_height
                     THEN grow_head(a.mem, hd, nn, ok2)
                     ELSE [mem |-> a.mem, head |-> hd, ret |-> OK]
            IN  IF g.ret < 0
                THEN [mem |-> g.mem, head |-> g.head, count |-> cnt,
                      ret |-> ERR, old |-> old1, drew |-> TRUE]
                ELSE
                LET prevs2 == [i \in 0..cur_height - 1 |->
                                 IF new_height > cur_height /\ prevs[i] = hd
                                 THEN g.head ELSE prevs[i]]
                    minH == Min(g.mem[nn].h, cur_height)
                IN [mem |-> splice(g.mem, prevs2, nn, 0, minH),
                    head |-> g.head, count |-> cnt + 1, ret |-> OK,
                    old |-> old1, drew |-> TRUE]

\* skiplist_add: add_or_set with try_replace = 0 and old = NULL.
skiplist_add(mem, hd, cnt, key, value, r, ok1, ok2) ==
    add_or_set(mem, hd, cnt, FALSE, key, value, FALSE, r, ok1, ok2)

\* skiplist_set that passes try_replace = 0.
skiplist_set_no_replace(mem, hd, cnt, key, value, has_old, r, ok1, ok2) ==
    add_or_set(mem, hd, cnt, FALSE, key, value, has_old, r, ok1, ok2)

\* skiplist_set: add_or_set with try_replace = 1.
skiplist_set(mem, hd, cnt, key, value, has_old, r, ok1, ok2) ==
    add_or_set(mem, hd, cnt, TRUE, key, value, has_old, r, ok1, ok2)

\* -------------------------------------------------------------- deletion

\* The unlink loop of "delete one": prevs[i]->next[i] = doomed->next[i].
RECURSIVE unlink(_, _, _, _, _)
unlink(mem, prevs, doomed, i, n) ==
    IF i >= n THEN mem
    ELSE unlink([mem EXCEPT ![prevs[i]].next[i + 1] = Nxt(mem, doomed, i)],
                prevs, doomed, i + 1, n)

\* The do-while of "delete all" with tdh taken from the first doomed node
\* only, not the tallest.
RECURSIVE delete_run_first_height(_, _, _)
delete_run_first_height(st, key, doomed) ==
    LET mem == st.mem
        next == Nxt(mem, doomed, 0)
        tdh == IF st.tdh = 0 THEN mem[doomed].h ELSE st.tdh
        nexts == [i \in DOMAIN st.nexts |->
                    IF i < mem[doomed].h THEN Nxt(mem, doomed, i)
                                         ELSE st.nexts[i]]
        visited == Append(st.visited, <<key, mem[doomed].v>>)
        m1 == N_free(mem, doomed)
        res == IF IS_SENTINEL(next) THEN -1 ELSE SKIPLIST_CMP(m1[next].k, key)
        st1 == [mem |-> m1, count |-> st.count - 1, nexts |-> nexts,
                tdh |-> tdh, visited |-> visited]
    IN  IF res = 0 THEN delete_run_first_height(st1, key, next) ELSE st1

\* The do-while of "delete all": walks the run of equal keys, remembering
\* per level the forward pointer of the last doomed node seen there.
\* st = [mem, count, nexts, tdh, visited].
RECURSIVE delete_run(_, _, _)
delete_run(st, key, doomed) ==
    LET mem == st.mem
        next == Nxt(mem, doomed, 0)
        tdh == Max(st.tdh, mem[doomed].h)
        nexts == [i \in DOMAIN st.nexts |->
                    IF i < mem[doomed].h THEN Nxt(mem, doomed, i)
                                         ELSE st.nexts[i]]
        visited == Append(st.visited, <<key, mem[doomed].v>>)
        m1 == N_free(mem, doomed)
        res == IF IS_SENTINEL(next) THEN -1 ELSE SKIPLIST_CMP(m1[next].k, key)
        st1 == [mem |-> m1, count |-> st.count - 1, nexts |-> nexts,
                tdh |-> tdh, visited |-> visited]
    IN  IF res = 0 THEN delete_run(st1, key, next) ELSE st1

\* The relink loop of "delete all": prevs[i]->next[i] = nexts[i], i < tdh.
RECURSIVE relink(_, _, _, _, _)
relink(mem, prevs, nexts, i, tdh) ==
    IF i >= tdh THEN mem
    ELSE relink([mem EXCEPT ![prevs[i]].next[i + 1] = nexts[i]],
                prevs, nexts, i + 1, tdh)

\* delete_one_or_all.  has_cb = FALSE is skiplist_delete, TRUE is
\* skiplist_delete_all; visited lists the pairs handed to cb.
delete_one_or_all(mem, hd, cnt, key, has_cb) ==
    LET cur_height == mem[hd].h
        prevs == init_prevs(mem, key, hd, cur_height)
        doomed == Nxt(mem, prevs[0], 0)
    IN  IF IS_SENTINEL(doomed) \/ 0 # SKIPLIST_CMP(mem[doomed].k, key)
        THEN [mem |-> mem, count |-> cnt, ret |-> NULL, visited |-> <<>>]
        ELSE IF ~has_cb
        THEN [mem |-> N_free(unlink(mem, prevs, doomed, 0, mem[doomed].h),
                             doomed),
              count |-> cnt - 1, ret |-> mem[doomed].v, visited |-> <<>>]
        ELSE LET st == delete_run([mem |-> mem, count |-> cnt,
                                   nexts |-> [i \in 0..cur_height - 1 |-> SENTINEL],
                                   tdh |-> 0, visited |-> <<>>], key, doomed)
             IN [mem |-> relink(st.mem, prevs, st.nexts, 0, st.tdh),
                 count |-> st.count, ret |-> NULL, visited |-> st.visited]

\* ------------------------------------------------------- boundary operations

\* skiplist_first
skiplist_first(mem, hd) ==
    LET first == Nxt(mem, hd, 0) IN
    IF IS_SENTINEL(first) THEN [ret |-> ERR, key |-> UNSET, value |-> UNSET]
    ELSE [ret |-> OK, key |-> mem[first].k, value |-> mem[first].v]

\* The do-while of skiplist_last.
RECURSIVE last_loop(_, _, _)
last_loop(mem, cur, lvl) ==
    LET next == Nxt(mem, cur, lvl) IN
    IF IS_SENTINEL(next)
    THEN (IF lvl - 1 >= 0 THEN last_loop(mem, cur, lvl - 1) ELSE cur)
    ELSE last_loop(mem, next, lvl)

\* skiplist_last: "empty" is decided by the head's TOP level.
skiplist_last(mem, hd) ==
    LET lvl == mem[hd].h - 1
        cur == Nxt(mem, hd, lvl)
    IN  IF IS_SENTINEL(cur) THEN [ret |-> ERR, key |-> UNSET, value |-> UNSET]
        ELSE LET n == last_loop(mem, cur, lvl) IN
             [ret |-> OK, key |-> mem[n].k, value |-> mem[n].v]

\* The loop of skiplist_pop_first patching level 0 only.
pop_first_loop_level0(mem, hd, first, i, height) ==
    [mem EXCEPT ![hd].next[1] = Nxt(mem, first, 0)]

\* The DO loop of skiplist_pop_first: head->next[i] = first->next[i].
RECURSIVE pop_first_loop(_, _, _, _, _)
pop_first_loop(mem, hd, first, i, height) ==
    IF i >= height THEN mem
    ELSE pop_first_loop([mem EXCEPT ![hd].next[i + 1] = Nxt(mem, first, i)],
                        hd, first, i + 1, height)

\* skiplist_pop_first
skiplist_pop_first(mem, hd, cnt) ==
    LET first == Nxt(mem, hd, 0) IN
    IF IS_SENTINEL(first)
    THEN [mem |-> mem, count |-> cnt, ret |-> ERR, key |-> UNSET,
          value |-> UNSET]
    ELSE [mem |-> N_free(pop_first_loop(mem, hd, first, 0, mem[first].h),
                         first),
          count |-> cnt - 1, ret |-> OK, key |-> mem[first].k,
          value |-> mem[first].v]

\* The do-while of skiplist_pop_last: per level the node that precedes the
\* last node of that level (or the last node / head where the level ends).
RECURSIVE pop_last_prevs(_, _, _, _)
pop_last_prevs(mem, cur, lvl, prevs) ==
    LET descend == [cur |-> cur, prevs |-> [prevs EXCEPT ![lvl] = cur]]
        down(p) == IF lvl - 1 >= 0
                   THEN pop_last_prevs(mem, cur, lvl - 1, p.prevs)
                   ELSE p
    IN  IF IS_SENTINEL(Nxt(mem, cur, lvl))
        THEN down(descend)
        ELSE IF IS_SENTINEL(Nxt(mem, Nxt(mem, cur, lvl), lvl))
             THEN down(descend)
             ELSE pop_last_prevs(mem, Nxt(mem, cur, lvl), lvl, prevs)

\* The loop of skiplist_pop_last cutting level 0 only.
pop_last_loop_level0(mem, prevs, i, height) ==
    [mem EXCEPT ![prevs[0]].next[1] = SENTINEL]

\* The DO loop of skiplist_pop_last: prevs[i]->next[i] = &SENTINEL.
RECURSIVE pop_last_loop(_, _, _, _)
pop_last_loop(mem, prevs, i, height) ==
    IF i >= height THEN mem
    ELSE pop_last_loop([mem EXCEPT ![prevs[i]].next[i + 1] = SENTINEL],
                       prevs, i + 1, height)

\* skiplist_pop_last without the test of sl->count.
skiplist_pop_last_no_count_test(mem, hd, cnt, ndebug) ==
    LET p == pop_last_prevs(mem, hd, mem[hd].h - 1,
                            [i \in 0..mem[hd].h - 1 |-> NULL])
        cur == Nxt(mem, p.cur, 0)
    IN  IF IS_SENTINEL(cur)
        THEN [mem |-> mem, count |-> IF ndebug THEN cnt - 1 ELSE cnt,
              ret |-> ERR, key |-> IF ndebug THEN NULL ELSE UNSET,
              value |-> IF ndebug THEN NULL ELSE UNSET, abort |-> TRUE]
        ELSE [mem |-> N_free(pop_last_loop(mem, p.prevs, 0, mem[cur].h), cur),
              count |-> cnt - 1, ret |-> OK, key |-> mem[cur].k,
              value |-> mem[cur].v, abort |-> FALSE]

\* skiplist_pop_last.  "Empty" is decided by sl->count.  When count is not 0
\* but the level-0 chain is empty, cur becomes the sentinel: a build with
\* assertions aborts in A(!IS_SENTINEL(cur)); a build without them (ndebug)
\* decrements count and hands &SENTINEL to free(), which ends the process.
skiplist_pop_last(mem, hd, cnt, ndebug) ==
    LET p == pop_last_prevs(mem, hd, mem[hd].h - 1,
                            [i \in 0..mem[hd].h - 1 |-> NULL])
        cur == Nxt(mem, p.cur, 0)
    IN  IF cnt = 0
        THEN [mem |-> mem, count |-> cnt, ret |-> ERR, key |-> UNSET,
              value |-> UNSET, abort |-> FALSE]
        ELSE IF IS_SENTINEL(cur)
        THEN [mem |-> mem, count |-> IF ndebug THEN cnt - 1 ELSE cnt,
              ret |-> ERR, key |-> IF ndebug THEN NULL ELSE UNSET,
              value |-> IF ndebug THEN NULL ELSE UNSET, abort |-> TRUE]
        ELSE [mem |-> N_free(pop_last_loop(mem, p.prevs, 0, mem[cur].h), cur),
              count |-> cnt - 1, ret |-> OK, key |-> mem[cur].k,
              value |-> mem[cur].v, abort |-> FALSE]

\* skiplist_count
skiplist_count(cnt) == cnt

\* skiplist_empty
skiplist_empty(cnt) == skiplist_count(cnt) = 0

\* ------------------------------------------------------------- iteration

\* walk_and_apply with a visitor that returns non-zero on its limit-th call
\* (limit = 0: never).  The result lists the pairs handed to the visitor.
RECURSIVE walk_and_apply(_, _, _, _)
walk_and_apply(mem, cur, limit, seen) ==
    IF IS_SENTINEL(cur) THEN seen
    ELSE LET s1 == Append(seen, <<mem[cur].k, mem[cur].v>>) IN
         IF Len(s1) = limit THEN s1
         ELSE walk_and_apply(mem, Nxt(mem, cur, 0), limit, s1)

\* skiplist_iter
skiplist_iter(mem, hd, limit) == walk_and_apply(mem, Nxt(mem, hd, 0), limit, <<>>)

\* skiplist_iter_from that starts behind the first node of the key.
skiplist_iter_from_behind(mem, hd, key, limit) ==
    LET cur == get_first_eq_node(mem, hd, key) IN
    IF cur = NULL THEN [ret |-> ERR, seen |-> <<>>]
    ELSE [ret |-> OK, seen |-> walk_and_apply(mem, Nxt(mem, cur, 0), limit, <<>>)]

\* skiplist_iter_from: walk_and_apply from the first node of the key;
\* seen lists the pairs handed to the visitor.
skiplist_iter_from(mem, hd, key, limit) ==
    LET cur == get_first_eq_node(mem, hd, key) IN
    IF cur = NULL THEN [ret |-> ERR, seen |-> <<>>]
    ELSE [ret |-> OK, seen |-> walk_and_apply(mem, cur, limit, <<>>)]

\* The while loop of skiplist_clear.  st = [mem, ct, visited].
RECURSIVE clear_loop(_, _, _)
clear_loop(st, cur, has_cb) ==
    IF IS_SENTINEL(cur) THEN st
    ELSE LET doomed == cur IN
         clear_loop([mem |-> N_free(st.mem, doomed), ct |-> st.ct + 1,
                     visited |-> IF has_cb
                                 THEN Append(st.visited,
                                             <<st.mem[doomed].k, st.mem[doomed].v>>)
                                 ELSE st.visited],
                    Nxt(st.mem, doomed, 0), has_cb)

\* skiplist_clear: frees every node and resets the head's tower.  sl->count
\* is not written.
skiplist_clear(mem, hd, cnt, has_cb) ==
    LET st == clear_loop([mem |-> mem, ct |-> 0, visited |-> <<>>],
                         Nxt(mem, hd, 0), has_cb)
    IN [mem |-> [st.mem EXCEPT ![hd].next =
                    [i \in 1..mem[hd].h |-> SENTINEL]],
        count |-> cnt, ret |-> st.ct, visited |-> st.visited]

\* ------------------------------------------------------ address renaming

\* The level-i chain from node n, as far as it can be followed.
RECURSIVE LevelChainFrom(_, _, _, _)
LevelChainFrom(mem, n, i, fuel) ==
    IF fuel = 0 \/ n \notin Addrs THEN <<>>
    ELSE IF mem[n].h <= i THEN <<>>
    ELSE <<n>> \o LevelChainFrom(mem, Nxt(mem, n, i), i, fuel - 1)

\* The nodes of level i in chain order, head excluded.
LevelChain(mem, hd, i) == LevelChainFrom(mem, Nxt(mem, hd, i), i, MaxAddr)

Range(s) == {s[i] : i \in DOMAIN s}

\* The code compares node addresses only for equality, so two heaps that
\* differ by a renaming of addresses are the same program state.  Canon
\* picks one naming: the head at 1, then the level-0 chain in order, then
\* the allocated cells no chain reaches (by content), then the free cells.
\* The operations above run on the addresses as they are; only the stored
\* successor state is renamed.
\* An allocated cell that is not the head and that no forward pointer
\* refers to: no operation can reach it, or read its key and value, again.
\* Canon blanks the key and value of such a cell; the cell stays allocated.
Lost(mem, hd, a) ==
    /\ a # hd
    /\ mem[a] # FreeCell
    /\ a \notin UNION {Range(mem[b].next) : b \in Addrs}

Weight(c) ==
    IF c = FreeCell
    THEN (MaxKey + 1) * (MaxVal + 1) * (SKIPLIST_MAX_HEIGHT + 1)
    ELSE (c.k * (MaxVal + 1) + c.v) * (SKIPLIST_MAX_HEIGHT + 1) + c.h

\* The heap with the key and value of every lost cell blanked.
Blanked(mem, hd) ==
    [a \in Addrs |-> IF Lost(mem, hd, a)
                     THEN [mem[a] EXCEPT !.k = NULL, !.v = NULL]
                     ELSE mem[a]]

\* The new address of every cell: head, chain, then the rest by content.
Perm(m, hd, chain, rest) ==
    [a \in Addrs |->
       IF a = hd THEN 1
       ELSE IF a \in rest
       THEN 1 + Len(chain)
            + Cardinality({b \in rest :
                 Weight(m[b]) * (MaxAddr + 1) + b
                    <= Weight(m[a]) * (MaxAddr + 1) + a})
       ELSE 1 + CHOOSE i \in DOMAIN chain : chain[i] = a]

Inverse(perm) == [b \in Addrs |-> CHOOSE a \in Addrs : perm[a] = b]

Renamed(m, perm, inv) ==
    [b \in Addrs |->
       [h |-> m[inv[b]].h, k |-> m[inv[b]].k, v |-> m[inv[b]].v,
        next |-> [i \in DOMAIN m[inv[b]].next |->
                    IF m[inv[b]].next[i] \in Addrs
                    THEN perm[m[inv[b]].next[i]]
                    ELSE m[inv[b]].next[i]]]]

CanonChain(mem, hd, chain) ==
    IF /\ hd = 1
       /\ chain = [i \in 1..Len(chain) |-> i + 1]
       /\ \A a \in Len(chain) + 2..MaxAddr : mem[a] = FreeCell
    THEN [mem |-> mem, head |-> hd]             \* already canonical
    ELSE IF Cardinality(Range(chain)) # Len(chain) \/ hd \in Range(chain)
    THEN [mem |-> mem, head |-> hd]             \* not a simple chain
    ELSE With(Blanked(mem, hd), LAMBDA m :
         With(Perm(m, hd, chain, Addrs \ ({hd} \cup Range(chain))),
              LAMBDA perm :
         With(Inverse(perm), LAMBDA inv :
              [mem |-> Renamed(m, perm, inv), head |-> 1])))

Canon(mem, hd) ==
    With(LevelChain(mem, hd, 0), LAMBDA chain : CanonChain(mem, hd, chain))

\* ---------------------------------------------------------------- actions

\* sl->count is capped in the guards: skiplist_clear never lowers it, so
\* clear/add rounds would let it grow without bound.
MaxCount == MaxAddr

\* The last mutating call: its name, arguments, return value and what it
\* wrote through `old`.
Call(op, key, value, ret, old) ==
    [op |-> op, key |-> key, value |-> value, ret |-> ret, old |-> old]

\* The threads that may be inside a call at the same time (locking mode).
Threads == {0, 1}
IdleThread == [pc |-> "idle"]

\* skiplist_new: count 0 and a head of height 1.
Init ==
    /\ heap = N_alloc([a \in Addrs |-> FreeCell], 1, SENTINEL, SENTINEL, TRUE).mem
    /\ head = 1
    /\ count = 0
    /\ call = Call("new", NULL, NULL, OK, UNSET)
    /\ aborted = FALSE
    /\ seed = 1                     \* random(3) starts as if srandom(1)
    /\ rng = srandom(1)
    /\ heights = <<>>
    /\ threads = [t \in Threads |-> IdleThread]

\* The structure after a call, stored under its canonical naming.
Store(mem, hd, cnt) ==
    \E c \in {Canon(mem, hd)} :
        /\ heap' = c.mem
        /\ head' = c.head
        /\ count' = cnt

\* skiplist_add.  The allocator fails when the pool is exhausted.
Add ==
    /\ ~aborted /\ count < MaxCount
    /\ \E key \in Keys, value \in Values, r \in Randoms :
        \E s \in {skiplist_add(heap, head, count, key, value, r, TRUE, TRUE)} :
            /\ Store(s.mem, s.head, s.count)
            /\ call' = Call("add", key, value, s.ret, UNSET)
            /\ UNCHANGED <<aborted, generator, threads>>

\* skiplist_set, called with a non-NULL `old`.
Set ==
    /\ ~aborted /\ count < MaxCount
    /\ \E key \in Keys, value \in Values, r \in Randoms :
        \E s \in {skiplist_set(heap, head, count, key, value, TRUE, r,
                              TRUE, TRUE)} :
            /\ Store(s.mem, s.head, s.count)
            /\ call' = Call("set", key, value, s.ret, s.old)
            /\ UNCHANGED <<aborted, generator, threads>>

\* skiplist_delete
Delete ==
    /\ ~aborted
    /\ \E key \in Keys :
        \E s \in {delete_one_or_all(heap, head, count, key, FALSE)} :
            /\ Store(s.mem, head, s.count)
            /\ call' = Call("delete", key, NULL, s.ret, UNSET)
            /\ UNCHANGED <<aborted, generator, threads>>

\* skiplist_delete_all; ret records how often the visitor was called.
DeleteAll ==
    /\ ~aborted
    /\ \E key \in Keys :
        \E s \in {delete_one_or_all(heap, head, count, key, TRUE)} :
            /\ Store(s.mem, head, s.count)
            /\ call' = Call("delete_all", key, NULL, Len(s.visited), UNSET)
            /\ UNCHANGED <<aborted, generator, threads>>

\* skiplist_pop_first
PopFirst ==
    /\ ~aborted
    /\ \E s \in {skiplist_pop_first(heap, head, count)} :
        /\ Store(s.mem, head, s.count)
        /\ call' = Call("pop_first", s.key, s.value, s.ret, UNSET)
        /\ UNCHANGED <<aborted, generator, threads>>

\* skiplist_pop_last
PopLast ==
    /\ ~aborted
    /\ \E ndebug \in BOOLEAN :
        \E s \in {skiplist_pop_last(heap, head, count, ndebug)} :
            /\ Store(s.mem, head, s.count)
            /\ call' = Call("pop_last", s.key, s.value, s.ret, UNSET)
            /\ aborted' = s.abort
            /\ UNCHANGED <<generator, threads>>

\* skiplist_clear
Clear ==
    /\ ~aborted
    /\ \E has_cb \in BOOLEAN :
        \E s \in {skiplist_clear(heap, head, count, has_cb)} :
            /\ Store(s.mem, head, s.count)
            /\ call' = Call("clear", NULL, NULL, s.ret, UNSET)
            /\ UNCHANGED <<aborted, generator, threads>>

\* The read-only operations (get, member, first, last, count, empty, iter)
\* change nothing; they are the operators above, which the properties
\* evaluate in every reachable state.
Next ==
    \/ Add \/ Set \/ Delete \/ DeleteAll \/ PopFirst \/ PopLast \/ Clear

Spec == Init /\ [][Next]_vars

\* The histories in which skiplist_clear is never called: the structure
\* gains and loses its entries one call at a time.
NextNoClear ==
    \/ Add \/ Set \/ Delete \/ DeleteAll \/ PopFirst \/ PopLast

SpecNoClear == Init /\ [][NextNoClear]_vars

\* ------------------------------------------------------- seeded generator

\* skiplist_set_seed: srandom(seed).  The structure is not touched.  A run
\* seeds the generator, if at all, before its first insert.
SetSeed ==
    /\ ~aborted /\ call.op = "new"
    /\ \E s \in Seeds :
          /\ seed' = s
          /\ rng' = skiplist_set_seed(s)
          /\ call' = Call("set_seed", s, NULL, OK, UNSET)
    /\ heights' = <<>>
    /\ UNCHANGED <<heap, head, count, aborted, threads>>

\* add_or_set with the result of random() taken from the generator: the
\* generator advances when the call reaches SKIPLIST_GEN_HEIGHT, and the
\* height of the node the call links in (the block N_alloc returned) is
\* appended to heights when count went up.
Seeded(op, try_replace) ==
    /\ ~aborted /\ count < MaxCount
    /\ \E key \in Keys, value \in Values :
       \E g \in {random(rng)} :
       \E s \in {add_or_set(heap, head, count, try_replace, key, value,
                            try_replace, g.r, TRUE, TRUE)} :
          /\ Store(s.mem, s.head, s.count)
          /\ call' = Call(op, key, value, s.ret, s.old)
          /\ rng' = IF s.drew THEN g.rng ELSE rng
          /\ heights' = IF s.count = count + 1
                        THEN Append(heights,
                                    s.mem[SKIPLIST_MALLOC(heap, TRUE)].h)
                        ELSE heights
    /\ UNCHANGED <<aborted, seed, threads>>

\* skiplist_add
SeededAdd == Seeded("add", FALSE)

\* skiplist_set
SeededSet == Seeded("set", TRUE)

NextSeed == SetSeed \/ SeededAdd \/ SeededSet

SpecSeed == Init /\ [][NextSeed]_vars

\* ------------------------------------------------------------ locking mode

\* With SKIPLIST_USE_LOCK the structure carries a mutex, which skiplist_new
\* initialises; no function of skiplist.c acquires or releases it.  Two
\* threads inside skiplist_add therefore interleave statement by statement.
\* Each thread runs one skiplist_add; the value it stores is its own name.
\* A thread that dereferences a freed node, or indexes a node's tower
\* beyond its height, ends the process (aborted).

\* cell a can be dereferenced at level i
Valid(mem, a, i) == a \in Addrs /\ mem[a] # FreeCell /\ i < mem[a].h

\* add_or_set up to init_prevs: read sl->head and its height, fill prevs.
T_init_prevs(t) ==
    /\ ~aborted /\ threads[t].pc = "idle"
    /\ \E key \in Keys, r \in Randoms :
          threads' = [threads EXCEPT ![t] =
                        [pc |-> "alloc", key |-> key, value |-> t, r |-> r,
                         head |-> head, cur_height |-> heap[head].h,
                         prevs |-> init_prevs(heap, key, head, heap[head].h)]]
    /\ UNCHANGED <<heap, head, count, call, aborted, generator>>

\* new_height = SKIPLIST_GEN_HEIGHT(); nn = N_alloc(...); R -1 on failure.
T_alloc(t) ==
    /\ ~aborted /\ threads[t].pc = "alloc"
    /\ \E th \in {threads[t]} :
       \E a \in {N_alloc(heap, SKIPLIST_GEN_HEIGHT(th.r), th.key, th.value,
                         TRUE)} :
          /\ heap' = a.mem
          /\ threads' = [threads EXCEPT ![t] =
                IF a.n = NULL
                THEN [pc |-> "done", key |-> th.key, value |-> th.value,
                      r |-> th.r, ret |-> ERR]
                ELSE [th EXCEPT !.pc = IF a.mem[a.n].h > th.cur_height
                                       THEN "grow" ELSE "splice_read"]
                       @@ [nn |-> a.n, i |-> 0]]
    /\ UNCHANGED <<head, count, call, aborted, generator>>

\* grow_head(sl, nn), then the prevs[] fix-up and head = sl->head.
\* grow_head copies old_head->h pointers into a head of nn->h levels: a
\* current head taller than nn overruns the new head.
T_grow(t) ==
    /\ ~aborted /\ threads[t].pc = "grow"
    /\ \E th \in {threads[t]} :
          IF heap[head].h > heap[th.nn].h
          THEN /\ aborted' = TRUE
               /\ UNCHANGED <<heap, head, threads>>
          ELSE \E g \in {grow_head(heap, head, th.nn, TRUE)} :
               /\ heap' = g.mem
               /\ head' = g.head
               /\ threads' = [threads EXCEPT ![t] =
                     IF g.ret < 0
                     THEN [pc |-> "done", key |-> th.key, value |-> th.value,
                           r |-> th.r, ret |-> ERR]
                     ELSE [th EXCEPT !.pc = "splice_read",
                                     !.head = g.head,
                                     !.prevs = [i \in DOMAIN th.prevs |->
                                                  IF th.prevs[i] = th.head
                                                  THEN g.head
                                                  ELSE th.prevs[i]]]]
               /\ UNCHANGED aborted
    /\ UNCHANGED <<count, call, generator>>

\* A(i < prevs[i]->h); nn->next[i] = prevs[i]->next[i];
T_splice_read(t) ==
    /\ ~aborted /\ threads[t].pc = "splice_read"
    /\ \E th \in {threads[t]} :
          IF ~Valid(heap, th.prevs[th.i], th.i)
          THEN /\ aborted' = TRUE
               /\ UNCHANGED <<heap, threads>>
          ELSE /\ heap' = [heap EXCEPT ![th.nn].next[th.i + 1] =
                                         Nxt(heap, th.prevs[th.i], th.i)]
               /\ threads' = [threads EXCEPT ![t].pc = "splice_write"]
               /\ UNCHANGED aborted
    /\ UNCHANGED <<head, count, call, generator>>

\* prevs[i]->next[i] = nn; and the loop test i < minH.
T_splice_write(t) ==
    /\ ~aborted /\ threads[t].pc = "splice_write"
    /\ \E th \in {threads[t]} :
          IF ~Valid(heap, th.prevs[th.i], th.i)
          THEN /\ aborted' = TRUE
               /\ UNCHANGED <<heap, threads>>
          ELSE /\ heap' = [heap EXCEPT ![th.prevs[th.i]].next[th.i + 1] = th.nn]
               /\ threads' = [threads EXCEPT ![t] =
                     [th EXCEPT !.i = th.i + 1,
                                !.pc = IF th.i + 1 < Min(heap[th.nn].h,
                                                         th.cur_height)
                                       THEN "splice_read" ELSE "count_read"]]
               /\ UNCHANGED aborted
    /\ UNCHANGED <<head, count, call, generator>>

\* sl->count++ : the load
T_count_read(t) ==
    /\ ~aborted /\ threads[t].pc = "count_read"
    /\ threads' = [threads EXCEPT ![t] =
                    [threads[t] EXCEPT !.pc = "count_write"] @@ [tmp |-> count]]
    /\ UNCHANGED <<heap, head, count, call, aborted, generator>>

\* sl->count++ : the store; R 0.
T_count_write(t) ==
    /\ ~aborted /\ threads[t].pc = "count_write"
    /\ count' = threads[t].tmp + 1
    /\ threads' = [threads EXCEPT ![t] =
                    [pc |-> "done", key |-> threads[t].key,
                     value |-> threads[t].value, r |-> threads[t].r,
                     ret |-> OK]]
    /\ UNCHANGED <<heap, head, call, aborted, generator>>

NextLocking ==
    \E t \in Threads :
        \/ T_init_prevs(t) \/ T_alloc(t) \/ T_grow(t)
        \/ T_splice_read(t) \/ T_splice_write(t)
        \/ T_count_read(t) \/ T_count_write(t)

SpecLocking == Init /\ [][NextLocking]_vars

\* ------------------------------------------------------------- observers

\* What a full skiplist_iter visits in the current state.
Visits == skiplist_iter(heap, head, 0)

\* The pairs of a visit sequence whose key is k / is not k.
WithKey(pairs, k) == SelectSeq(pairs, LAMBDA p : p[1] = k)
WithoutKey(pairs, k) == SelectSeq(pairs, LAMBDA p : p[1] # k)

\* Some entry has key k.
Present(k) == \E i \in DOMAIN Visits : Visits[i][1] = k

\* The first node of a level-0 chain (a sequence of addresses of the
\* current heap) that has key k.
FirstWithKey(chain, k) ==
    chain[CHOOSE i \in DOMAIN chain :
            /\ heap[chain[i]].k = k
            /\ \A j \in 1..i - 1 : heap[chain[j]].k # k]

\* The allocated cells of a heap.
Allocated(mem) == Addrs \ FreeAddrs(mem)

\* The level-0 entries of a structure, following at most MaxAddr pointers.
Pairs(mem, hd) ==
    LET chain == LevelChain(mem, hd, 0)
    IN  [i \in DOMAIN chain |-> <<mem[chain[i]].k, mem[chain[i]].v>>]

\* What the skiplist_add of thread record a followed by the one of thread
\* record b leaves behind, one after the other on a fresh structure.
SerialAdds(a, b) ==
    LET f == N_alloc([x \in Addrs |-> FreeCell], 1, SENTINEL, SENTINEL, TRUE).mem
        s1 == skiplist_add(f, 1, 0, a.key, a.value, a.r, TRUE, TRUE)
        s2 == skiplist_add(s1.mem, s1.head, s1.count, b.key, b.value, b.r,
                           TRUE, TRUE)
    IN  [pairs |-> Pairs(s2.mem, s2.head), count |-> s2.count]

\* skiplist_debug: TRUE when none of its assertions fails.  It walks every
\* level from the top down, asserts n->h <= head->h for each node met, and
\* asserts that a level has at least as many nodes as the level above
\* whenever that one has any.
skiplist_debug(mem, hd) ==
    LET max_lvl == mem[hd].h
        counts == [i \in 0..max_lvl - 1 |-> Len(LevelChain(mem, hd, i))]
    IN  /\ \A i \in 0..max_lvl - 1 :
              \A n \in Range(LevelChain(mem, hd, i)) : mem[n].h <= max_lvl
        /\ \A i \in 0..max_lvl - 2 :
              counts[i + 1] # 0 => counts[i] >= counts[i + 1]

\* The value of the i-th random() call after the generator was in state g.
RECURSIVE NthRandom(_, _)
NthRandom(g, i) ==
    IF i <= 1 THEN random(g).r ELSE NthRandom(random(g).rng, i - 1)

\* skiplist_pop_first called again and again until it returns the empty
\* signal.  st = [mem, count, pairs]; pairs lists what the calls returned.
RECURSIVE PopFirstAll(_, _, _)
PopFirstAll(st, hd, fuel) ==
    LET s == skiplist_pop_first(st.mem, hd, st.count) IN
    IF s.ret # OK \/ fuel = 0 THEN st
    ELSE PopFirstAll([mem |-> s.mem, count |-> s.count,
                      pairs |-> Append(st.pairs, <<s.key, s.value>>)],
                     hd, fuel - 1)

\* ---------------------------------------------------------------- claims

\* C1: count() equals the number of entries a full iterate() visits, and
\* empty() is true exactly when the level-0 chain is empty.
C1_CountMatchesIteration ==
    /\ skiplist_count(count) = Len(Visits)
    /\ skiplist_empty(count) <=> (Visits = <<>>)

\* C2: entries with equal keys keep insertion order: add(k, v) puts the new
\* entry behind every entry that already has key k, and delete(k) removes
\* exactly the first entry with key k and returns its value.
C2_EqualKeysKeepInsertionOrder ==
    \A key \in Keys :
        /\ \A value \in Values, r \in Randoms :
              LET s == skiplist_add(heap, head, count, key, value, r, TRUE, TRUE)
              IN  s.ret = OK =>
                    WithKey(skiplist_iter(s.mem, s.head, 0), key)
                      = Append(WithKey(Visits, key), <<key, value>>)
        /\ Present(key) =>
              LET s == delete_one_or_all(heap, head, count, key, FALSE)
              IN  /\ s.ret = Head(WithKey(Visits, key))[2]
                  /\ WithKey(skiplist_iter(s.mem, head, 0), key)
                       = Tail(WithKey(Visits, key))
                  /\ WithoutKey(skiplist_iter(s.mem, head, 0), key)
                       = WithoutKey(Visits, key)

\* C3: a successful add(k, v) immediately followed by get(k) returns v,
\* whatever the structure held before.
C3_AddThenGet ==
    (call.op = "add" /\ call.ret = OK)
        => skiplist_get(heap, head, call.key) = call.value

\* C3 witness: add succeeded on a key that already had an entry with another
\* value, in a structure with nodes of both heights.
C3_Witness ==
    /\ call.op = "add" /\ call.ret = OK
    /\ Len(WithKey(Visits, call.key)) >= 2
    /\ \E i \in DOMAIN Visits :
          Visits[i][1] = call.key /\ Visits[i][2] # call.value
    /\ \E a, b \in Range(LevelChain(heap, head, 0)) : heap[a].h < heap[b].h

\* C4: whenever set(k, v) inserts a new entry because no entry has key k,
\* it writes NULL through `old`, wherever k falls among the stored keys.
C4_SetNewReportsAbsent ==
    \A key \in Keys, value \in Values, r \in Randoms :
        LET s == skiplist_set(heap, head, count, key, value, TRUE, r, TRUE, TRUE)
        IN  (~Present(key) /\ s.ret = OK) => s.old = NULL

\* C5: while the structure holds an entry, last() succeeds and returns the
\* final pair of the level-0 chain; it signals empty only when there is none.
C5_LastIsFinalEntry ==
    IF Visits = <<>>
    THEN skiplist_last(heap, head).ret = ERR
    ELSE skiplist_last(heap, head)
           = [ret |-> OK, key |-> Visits[Len(Visits)][1],
              value |-> Visits[Len(Visits)][2]]

\* C6: when an entry with key k exists, set(k, v2) allocates nothing (it
\* succeeds even with an allocator that has nothing to give), leaves count,
\* head and every cell's height, key and forward pointers as they were,
\* reports the value of the first level-0 entry with key k, and get(k)
\* afterwards returns v2.
C6_SetReplaces ==
    \A key \in Keys :
        Present(key) =>
            \E n \in {FirstWithKey(LevelChain(heap, head, 0), key)} :
            \A value \in Values, r \in Randoms, ok \in BOOLEAN :
            \E s \in {skiplist_set(heap, head, count, key, value, TRUE, r,
                                  ok, ok)} :
                /\ s.ret = OK
                /\ s.count = count
                /\ s.head = head
                /\ s.mem = [heap EXCEPT ![n].v = value]
                /\ s.old = heap[n].v
                /\ skiplist_get(s.mem, s.head, key) = value

\* C6 witness: set has just replaced the value of a key that has several
\* entries, and reported a previous value different from the new one.
C6_Witness ==
    /\ call.op = "set" /\ call.ret = OK
    /\ call.old = 1 /\ call.value # 1
    /\ Len(WithKey(Visits, call.key)) >= 2
    /\ Head(WithKey(Visits, call.key)) = <<call.key, call.value>>

\* C7: a full iterate() visits the entries in non-decreasing key order.
C7_Sorted ==
    \A i, j \in DOMAIN Visits : i < j => Visits[i][1] <= Visits[j][1]

\* C7 witness: after a removal, the structure still holds entries of
\* different keys and two entries of one key.
C7_Witness ==
    /\ call.op \in {"delete", "pop_first", "pop_last"}
    /\ call.ret = OK \/ call.op = "delete"
    /\ Len(Visits) >= 3
    /\ \E i, j \in DOMAIN Visits : Visits[i][1] < Visits[j][1]
    /\ \E i, j \in DOMAIN Visits : i # j /\ Visits[i][1] = Visits[j][1]

\* C8: delete_all(k, visit) removes exactly the entries with key k: the
\* visitor sees each of them once, in level-0 order; count drops by their
\* number; at every level the chain is the old chain without the removed
\* nodes; every removed cell is freed, every other node is as it was, and
\* no forward pointer refers to a freed cell.  Without an entry of key k
\* nothing changes and the visitor is not called.
C8_DeleteAll ==
    \A key \in Keys :
        \E s \in {delete_one_or_all(heap, head, count, key, TRUE)} :
            /\ s.visited = WithKey(Visits, key)
            /\ skiplist_iter(s.mem, head, 0) = WithoutKey(Visits, key)
            /\ s.count = count - Len(WithKey(Visits, key))
            /\ \A i \in 0..heap[head].h - 1 :
                  LevelChain(s.mem, head, i)
                    = SelectSeq(LevelChain(heap, head, i),
                                LAMBDA a : heap[a].k # key)
            /\ \A a \in Range(LevelChain(heap, head, 0)) :
                  IF heap[a].k = key
                  THEN s.mem[a] = FreeCell
                  ELSE /\ s.mem[a].h = heap[a].h
                       /\ s.mem[a].k = heap[a].k
                       /\ s.mem[a].v = heap[a].v
            /\ \A b \in Allocated(s.mem) : \A i \in DOMAIN s.mem[b].next :
                  \/ IS_SENTINEL(s.mem[b].next[i])
                  \/ s.mem[b].next[i] \in Allocated(s.mem)
            /\ ~Present(key) =>
                  s.mem = heap /\ s.count = count /\ s.visited = <<>>

\* C8 witness: delete_all has just removed two entries and the visitor was
\* called twice, from a structure with a two-level head that keeps an entry.
C8_Witness ==
    /\ call.op = "delete_all" /\ call.ret = 2
    /\ heap[head].h = 2
    /\ Len(Visits) = 1
    /\ heap[Nxt(heap, head, 0)].h = 2

\* C9: member(k) is true and get(k) reports presence for every key that
\* has an entry, whatever value is stored (NULL included), and member(k) is
\* false exactly when no entry has key k.
C9_MemberIffPresent ==
    \A key \in Keys : skiplist_member(heap, head, key) <=> Present(key)

\* C10: when add or set fails because an allocation fails (the node's or
\* the taller head's, in a pool that is exhausted or with an allocator that
\* refuses), count, head and every cell that was allocated before the call,
\* so every forward pointer, are as before.
C10_AllocFailureAtomic ==
    \A try_replace \in BOOLEAN, key \in Keys, value \in Values,
       r \in Randoms, fail \in 0..2 :
        \E s \in {add_or_set(heap, head, count, try_replace, key, value, TRUE,
                            r, fail # 1, fail # 2)} :
            s.ret = ERR =>
                /\ s.count = count
                /\ s.head = head
                /\ \A a \in Allocated(heap) : s.mem[a] = heap[a]

\* C10 witness: add or set has just failed on a structure that holds
\* entries, with a stranded node left by a failed head growth.
C10_Witness ==
    /\ call.op \in {"add", "set"} /\ call.ret = ERR
    /\ Len(Visits) >= 2
    /\ \E a \in Addrs : Lost(heap, head, a)

\* C11: on a structure without entries, fresh or emptied again by delete,
\* delete_all, pop_first or pop_last (clear never called), get and delete
\* report absent, first, last, pop_first and pop_last return the empty
\* signal, iterate visits nothing, and delete, pop_first and pop_last leave
\* the heap and count as they are (the other calls write nothing at all).
C11_EmptyReportsEmpty ==
    Visits = <<>> =>
        /\ \A key \in Keys :
              /\ skiplist_get(heap, head, key) = NULL
              /\ \E s \in {delete_one_or_all(heap, head, count, key, FALSE)} :
                    s.ret = NULL /\ s.mem = heap /\ s.count = count
        /\ skiplist_first(heap, head).ret = ERR
        /\ skiplist_last(heap, head).ret = ERR
        /\ \E s \in {skiplist_pop_first(heap, head, count)} :
              s.ret = ERR /\ s.mem = heap /\ s.count = count
        /\ \A ndebug \in BOOLEAN :
              \E s \in {skiplist_pop_last(heap, head, count, ndebug)} :
                  s.ret = ERR /\ ~s.abort /\ s.mem = heap /\ s.count = count
        /\ skiplist_iter(heap, head, 0) = <<>>

\* C11 witness: a removal has just emptied a structure whose head had
\* grown to two levels.
C11_Witness ==
    /\ Visits = <<>>
    /\ heap[head].h = 2
    /\ \/ call.op \in {"pop_first", "pop_last"} /\ call.ret = OK
       \/ call.op = "delete_all" /\ call.ret >= 1

\* C12: after adds to a fresh structure (clear never called), repeated
\* pop_first returns the entries in level-0 order, which is non-decreasing
\* in the key; every call makes head skip the first node at each level of
\* that node and at no other, frees it and lowers count by one; at the end
\* the structure is empty, count is 0 and pop_first returns the empty
\* signal.
C12_PopFirstDrains ==
    /\ \E d \in {PopFirstAll([mem |-> heap, count |-> count, pairs |-> <<>>],
                            head, MaxAddr)} :
          /\ d.pairs = Visits
          /\ \A i, j \in DOMAIN d.pairs : i < j => d.pairs[i][1] <= d.pairs[j][1]
          /\ d.count = 0
          /\ d.mem[head].next = [i \in 1..heap[head].h |-> SENTINEL]
          /\ Allocated(d.mem) = Allocated(heap) \ Range(LevelChain(heap, head, 0))
          /\ skiplist_pop_first(d.mem, head, d.count).ret = ERR
    /\ Visits # <<>> =>
          \E first \in {Nxt(heap, head, 0)} :
          \E s \in {skiplist_pop_first(heap, head, count)} :
              /\ s.ret = OK
              /\ <<s.key, s.value>> = Visits[1]
              /\ s.count = count - 1
              /\ s.mem = N_free([heap EXCEPT ![head].next =
                                  [i \in 1..heap[head].h |->
                                     IF i <= heap[first].h
                                     THEN heap[first].next[i]
                                     ELSE heap[head].next[i]]], first)

\* C12 witness: pop_first has just removed one of several entries of the
\* least key from a structure with a two-level head.
C12_Witness ==
    /\ call.op = "pop_first" /\ call.ret = OK
    /\ Len(Visits) >= 2
    /\ heap[head].h = 2
    /\ Visits[1][1] = call.key
    /\ heap[Nxt(heap, head, 0)].h = 2

\* C13: in locking mode two skiplist_add calls that run at the same time
\* never touch freed memory, and once both have returned the structure is
\* one that the two calls leave when run one after the other: the same
\* level-0 entries, count equal to their number, no pointer to a freed cell.
C13_LockedOpsSerialize ==
    /\ ~aborted
    /\ (\A t \in Threads : threads[t].pc = "done") =>
          /\ \E a, b \in Threads :
                /\ a # b
                /\ \E s \in {SerialAdds(threads[a], threads[b])} :
                      Pairs(heap, head) = s.pairs /\ count = s.count
          /\ count = Len(Pairs(heap, head))
          /\ \A c \in Allocated(heap) : \A i \in DOMAIN heap[c].next :
                \/ IS_SENTINEL(heap[c].next[i])
                \/ heap[c].next[i] \in Allocated(heap)

\* C14: after skiplist_set_seed(seed), the i-th node that add or set
\* inserts has the height SKIPLIST_GEN_HEIGHT computes from the i-th value
\* of the generator seeded with seed, whatever keys and values the calls
\* were given (so two runs with one seed agree on it), and that height
\* lies in 1..SKIPLIST_MAX_HEIGHT.
C14_SeedFixesHeights ==
    \A i \in DOMAIN heights :
        /\ heights[i] \in 1..SKIPLIST_MAX_HEIGHT
        /\ heights[i] = SKIPLIST_GEN_HEIGHT(NthRandom(srandom(seed), i))

\* C14 witness: after a seeding, three nodes of both heights and of
\* different keys were inserted, the last one by set.
C14_Witness ==
    /\ seed # 1
    /\ Len(heights) = 3
    /\ \E i, j \in DOMAIN heights : heights[i] < heights[j]
    /\ \E i, j \in DOMAIN Visits : Visits[i][1] < Visits[j][1]
    /\ call.op = "set" /\ call.ret = OK

\* C15: no operation treats the sentinel as a node: no call has ended the
\* process by handing the sentinel to pop_last's assertions or to free(),
\* and in the current state pop_last would not do so either.
C15_SentinelNeverANode ==
    /\ ~aborted
    /\ \A ndebug \in BOOLEAN :
          ~skiplist_pop_last(heap, head, count, ndebug).abort

\* C16: for every level i below the head's height, the level-i chain from
\* head is finite, ends at the sentinel and consists of exactly the nodes
\* of the level-0 chain whose height exceeds i, in level-0 order; a lower
\* level never has fewer nodes than a higher one, and the assertions of
\* skiplist_debug hold.
C16_LevelStructure ==
    \E c0 \in {LevelChain(heap, head, 0)} :
        /\ Cardinality(Range(c0)) = Len(c0)
        /\ \A i \in 0..heap[head].h - 1 :
              \E ci \in {LevelChain(heap, head, i)} :
                  /\ ci = SelectSeq(c0, LAMBDA a : heap[a].h > i)
                  /\ IS_SENTINEL(IF ci = <<>> THEN Nxt(heap, head, i)
                                 ELSE Nxt(heap, ci[Len(ci)], i))
                  /\ \A j \in i + 1..heap[head].h - 1 :
                        Len(ci) >= Len(LevelChain(heap, head, j))
        /\ skiplist_debug(heap, head)

\* C16 witness: a pop has just removed a node and left two, a one-level
\* node in front of a two-level node.
C16_Witness ==
    /\ call.op \in {"pop_first", "pop_last"} /\ call.ret = OK
    /\ heap[head].h = 2
    /\ Len(LevelChain(heap, head, 0)) = 2
    /\ heap[LevelChain(heap, head, 0)[1]].h = 1
    /\ heap[LevelChain(heap, head, 0)[2]].h = 2

\* C17: a cell other than the head is allocated exactly while it is on the
\* level-0 chain from head, and no forward pointer of an allocated cell
\* refers to a freed cell.
C17_AllocatedIffReachable ==
    /\ \A a \in Addrs \ {head} :
          (heap[a] # FreeCell) <=> a \in Range(LevelChain(heap, head, 0))
    /\ \A b \in Allocated(heap) : \A i \in DOMAIN heap[b].next :
          \/ IS_SENTINEL(heap[b].next[i])
          \/ heap[b].next[i] \in Allocated(heap)

\* C18: the head is at least as tall as every node and at most
\* SKIPLIST_MAX_HEIGHT tall.  No call lowers it: delete, delete_all,
\* pop_first, pop_last and clear leave its height alone, and add/set
\* replace the head only when they insert a node taller than it.  The new
\* head is then as tall as the node, has the node as successor at every new
\* level and, at every old level, the old head's successor, or the node
\* followed by that successor where the old head was the recorded
\* predecessor; the old head is freed and nothing refers to it.
C18_HeadHeight ==
    \E oh \in {heap[head].h} :
    /\ oh \in 1..SKIPLIST_MAX_HEIGHT
    /\ \A a \in Range(LevelChain(heap, head, 0)) : heap[a].h <= oh
    /\ \A key \in Keys, has_cb \in BOOLEAN :
          delete_one_or_all(heap, head, count, key, has_cb).mem[head].h = oh
    /\ skiplist_pop_first(heap, head, count).mem[head].h = oh
    /\ \A b \in BOOLEAN :
          /\ skiplist_pop_last(heap, head, count, b).mem[head].h = oh
          /\ skiplist_clear(heap, head, count, b).mem[head].h = oh
    /\ \A try_replace \in BOOLEAN, key \in Keys, value \in Values,
          r \in Randoms, fail \in 0..2 :
          \E s \in {add_or_set(heap, head, count, try_replace, key, value,
                               TRUE, r, fail # 1, fail # 2)} :
          \E nh \in {s.mem[s.head].h} :
          \E nn \in {SKIPLIST_MALLOC(heap, fail # 1)} :
              /\ nh >= oh /\ nh <= SKIPLIST_MAX_HEIGHT
              /\ (s.ret = OK /\ s.count = count + 1) =>
                    nh = Max(oh, SKIPLIST_GEN_HEIGHT(r))
              /\ (s.head # head \/ nh # oh) =>
                    /\ s.ret = OK /\ s.count = count + 1
                    /\ SKIPLIST_GEN_HEIGHT(r) > oh
                    /\ s.head # head /\ nh = s.mem[nn].h
                    /\ s.mem[nn].k = key
                    /\ \A i \in oh..nh - 1 : Nxt(s.mem, s.head, i) = nn
                    /\ \E prevs \in {init_prevs(heap, key, head, oh)} :
                       \A i \in 0..oh - 1 :
                          IF prevs[i] = head
                          THEN /\ Nxt(s.mem, s.head, i) = nn
                               /\ Nxt(s.mem, nn, i) = Nxt(heap, head, i)
                          ELSE Nxt(s.mem, s.head, i) = Nxt(heap, head, i)
                    /\ s.mem[head] = FreeCell
                    /\ \A c \in Addrs : head \notin Range(s.mem[c].next)

\* C18 witness: add has just inserted the only two-level node behind a
\* one-level node, under a head of two levels.
C18_Witness ==
    /\ call.op = "add" /\ call.ret = OK
    /\ heap[head].h = 2
    /\ Len(LevelChain(heap, head, 1)) = 1
    /\ heap[LevelChain(heap, head, 1)[1]].k = call.key
    /\ Len(LevelChain(heap, head, 0)) >= 2
    /\ heap[LevelChain(heap, head, 0)[1]].h = 1
    /\ heap[LevelChain(heap, head, 0)[1]].k < call.key

\* C19: in every state with at least one entry, pop_last succeeds, returns
\* the key and value of the final node of the level-0 chain, sets to the
\* sentinel exactly the forward pointers that referred to that node (one
\* per level of the node), frees the node, changes nothing else and lowers
\* count by one.
C19_PopLast ==
    Visits # <<>> =>
        \E c0 \in {LevelChain(heap, head, 0)} :
        \E last \in {c0[Len(c0)]} :
        \A ndebug \in BOOLEAN :
        \E s \in {skiplist_pop_last(heap, head, count, ndebug)} :
            /\ s.ret = OK /\ ~s.abort
            /\ <<s.key, s.value>> = Visits[Len(Visits)]
            /\ s.count = count - 1
            /\ \A i \in 0..heap[last].h - 1 :
                  \E p \in Addrs : /\ i < heap[p].h
                                   /\ Nxt(heap, p, i) = last
            /\ s.mem = N_free([a \in Addrs |->
                                [heap[a] EXCEPT !.next =
                                   [i \in DOMAIN heap[a].next |->
                                      IF heap[a].next[i] = last
                                      THEN SENTINEL
                                      ELSE heap[a].next[i]]]], last)

\* C19 witness: pop_last has just removed one of several entries of the
\* greatest key, under a head taller than every node that is left.
C19_Witness ==
    /\ call.op = "pop_last" /\ call.ret = OK
    /\ heap[head].h = 2
    /\ Len(Visits) >= 2
    /\ Visits[Len(Visits)][1] = call.key
    /\ \A a \in Range(LevelChain(heap, head, 0)) : heap[a].h = 1

\* C20: iterate_from(k, visit) with some entry of key k reports success
\* and calls the visitor on the first level-0 entry of key k and then on
\* every following entry in level-0 order, up to the call at which the
\* visitor signals stop; with no entry of key k it reports not-found and
\* never calls the visitor.  (The call writes nothing to the structure.)
C20_IterFrom ==
    \A key \in Keys, limit \in 0..MaxAddr :
        \E s \in {skiplist_iter_from(heap, head, key, limit)} :
            IF Present(key)
            THEN \E from \in {CHOOSE i \in DOMAIN Visits :
                                 /\ Visits[i][1] = key
                                 /\ \A j \in 1..i - 1 : Visits[j][1] # key} :
                 \E rest \in {SubSeq(Visits, from, Len(Visits))} :
                    /\ s.ret = OK
                    /\ s.seen = IF limit = 0 \/ limit >= Len(rest) THEN rest
                                ELSE SubSeq(rest, 1, limit)
            ELSE s.ret = ERR /\ s.seen = <<>>

\* C20 witness: a structure in which iterate_from of one key starts in the
\* middle of the chain at the first of two entries of that key and visits
\* them, stops early when told to, and reports not-found for another key.
C20_Witness ==
    /\ Len(Visits) = 3
    /\ Visits[1][1] < Visits[2][1]
    /\ Visits[2][1] = Visits[3][1]
    /\ Visits[2][2] # Visits[3][2]
    /\ skiplist_iter_from(heap, head, Visits[2][1], 0).seen
         = <<Visits[2], Visits[3]>>
    /\ skiplist_iter_from(heap, head, Visits[2][1], 1).seen = <<Visits[2]>>
    /\ \E k \in Keys : skiplist_iter_from(heap, head, k, 0).ret = ERR
====
